---- MODULE Spec2Model ----
(***************************************************************************)
(* Model of internal/cmd/index.go: the "index" command of the search       *)
(* service.  NewIndexConfig names an index after its configuration,        *)
(* NewIndex collects the deployed names, dbConnectionString resolves the   *)
(* database credentials, and Run connects, selects one indexer per entity  *)
(* type and drives each through one of three batch strategies.             *)
(*                                                                         *)
(* Go strings are modelled as sequences of one-character strings, so that  *)
(* prefix tests, formatting, escaping and parsing are computed character   *)
(* by character.  Go errors are modelled by their message, Nil for nil.    *)
(***************************************************************************)
EXTENDS Integers, Sequences, FiniteSets, TLC

VARIABLES
    env,                \* the process environment read by os.Getenv
    secret,             \* what c.secrets.GetGlobalSecretString returns
    connResult,         \* (connString, err) of dbConnectionString, with the lookups it made
    Sum256,             \* crypto/sha256.Sum256, as a function of the configurations
    indexes,            \* the IndexConfig values built by NewIndexConfig
    currentIndexNames,  \* IndexCommand.currentIndexNames
    pc,                 \* position of the command: main, then inside Run
    args,               \* the arguments Run was called with
    flags,              \* the parsed flag values of Run
    connState,          \* the pgx connection: none, open, closed
    connects,           \* number of pgx.Connect calls made
    pinged,             \* conn.Ping has succeeded
    indexers,           \* Run's map of entity type to the index its indexer targets
    fromTime,           \* Run's fromTime
    todo,               \* keys of indexers the range loop has not visited yet
    calls,              \* indexer method calls made, in order, with their outcome
    logs,               \* lines written to c.logger, in order
    retErr              \* the error Run returned (Nil for nil), None while running

vars == <<env, secret, connResult, Sum256, indexes, currentIndexNames, pc, args,
          flags, connState, connects, pinged, indexers, fromTime, todo, calls, logs, retErr>>

Nil == "nil"
None == "none"

(***************************************************************************)
(* Strings                                                                 *)
(***************************************************************************)
RECURSIVE Concat(_)
Concat(parts) ==
    IF parts = <<>> THEN <<>> ELSE Head(parts) \o Concat(Tail(parts))

\* strings.HasPrefix
HasPrefix(s, prefix) ==
    /\ Len(s) >= Len(prefix)
    /\ SubSeq(s, 1, Len(prefix)) = prefix

Digits == <<"0", "1", "2", "3", "4", "5", "6", "7", "8", "9">>
LowerHex == Digits \o <<"a", "b", "c", "d", "e", "f">>
UpperHex == Digits \o <<"A", "B", "C", "D", "E", "F">>

\* The byte value of the characters of the model's inputs that are neither
\* letters nor digits.
Ord(ch) ==
    CASE ch = " " -> 32
      [] ch = "%" -> 37
      [] ch = "+" -> 43
      [] ch = "/" -> 47
      [] ch = ":" -> 58
      [] ch = "@" -> 64

Unreserved ==
    {Digits[i] : i \in 1..10} \cup
    {"a", "b", "d", "f", "h", "i", "k", "m", "n", "o", "p", "r", "s", "u", "w", "x"} \cup
    {"-", "_", ".", "~"}

\* net/url.QueryEscape, one character
EscapeChar(ch) ==
    IF ch \in Unreserved THEN <<ch>>
    ELSE IF ch = " " THEN <<"+">>
    ELSE <<"%", UpperHex[(Ord(ch) \div 16) + 1], UpperHex[(Ord(ch) % 16) + 1]>>

\* net/url.QueryEscape
RECURSIVE QueryEscape(_)
QueryEscape(s) ==
    IF s = <<>> THEN <<>> ELSE EscapeChar(Head(s)) \o QueryEscape(Tail(s))

(***************************************************************************)
(* dbConnectionString                                                      *)
(***************************************************************************)
ErrPass == "SEARCH_SERVICE_DB_PASS or SEARCH_SERVICE_DB_PASS_SECRET must be specified"
ErrUser == "SEARCH_SERVICE_DB_USER must be specified"
ErrHost == "SEARCH_SERVICE_DB_HOST must be specified"
ErrPort == "SEARCH_SERVICE_DB_PORT must be specified"
ErrDatabase == "SEARCH_SERVICE_DB_DATABASE must be specified"

ConnFail(err, lookups) == [conn |-> <<>>, err |-> err, lookups |-> lookups]

\* fmt.Sprintf("postgres://%s:%s@%s:%s/%s", ...)
FormatConn(user, pass, host, port, database) ==
    Concat(<< <<"p", "o", "s", "t", "g", "r", "e", "s", ":", "/", "/">>,
              user, <<":">>, QueryEscape(pass), <<"@">>, host, <<":">>, port,
              <<"/">>, database >>)

\* RequiredVars with the host checked before the user.
RequiredVarsHostFirst(e, pass, lookups) ==
    IF e.HOST = <<>> THEN ConnFail(ErrHost, lookups)
    ELSE IF e.USER = <<>> THEN ConnFail(ErrUser, lookups)
    ELSE IF e.PORT = <<>> THEN ConnFail(ErrPort, lookups)
    ELSE IF e.DATABASE = <<>> THEN ConnFail(ErrDatabase, lookups)
    ELSE [conn |-> FormatConn(e.USER, pass, e.HOST, e.PORT, e.DATABASE),
          err |-> Nil, lookups |-> lookups]

\* The checks of user, host, port and database, then the formatting.
RequiredVars(e, pass, lookups) ==
    IF e.USER = <<>> THEN ConnFail(ErrUser, lookups)
    ELSE IF e.HOST = <<>> THEN ConnFail(ErrHost, lookups)
    ELSE IF e.PORT = <<>> THEN ConnFail(ErrPort, lookups)
    ELSE IF e.DATABASE = <<>> THEN ConnFail(ErrDatabase, lookups)
    ELSE [conn |-> FormatConn(e.USER, pass, e.HOST, e.PORT, e.DATABASE),
          err |-> Nil, lookups |-> lookups]

\* The password: SEARCH_SERVICE_DB_PASS, replaced by the secret store's answer
\* whenever SEARCH_SERVICE_DB_PASS_SECRET is set.
dbConnectionString(e, sec) ==
    LET useSecret == e.PASS_SECRET # <<>>
        lookups == IF useSecret THEN <<e.PASS_SECRET>> ELSE <<>>
        pass == IF useSecret THEN sec.val ELSE e.PASS
    IN  IF useSecret /\ sec.err # Nil THEN ConnFail(sec.err, lookups)
        ELSE IF pass = <<>> THEN ConnFail(ErrPass, lookups)
        ELSE RequiredVars(e, pass, lookups)

(***************************************************************************)
(* NewIndexConfig and NewIndex                                             *)
(***************************************************************************)
\* sha256.Size: the length of a digest in bytes
Size == 32
\* the number of digest bytes NewIndexConfig formats into the name (sum[:8])
NameSumBytes == 8

\* HexByte without the leading zero, as %x formats an integer.
HexByteUnpadded(b) ==
    IF b < 16 THEN <<LowerHex[b + 1]>>
    ELSE <<LowerHex[(b \div 16) + 1], LowerHex[(b % 16) + 1]>>

\* fmt's %x of one byte: two lower-case hexadecimal digits
HexByte(b) == <<LowerHex[(b \div 16) + 1], LowerHex[(b % 16) + 1]>>

\* fmt's %x of a byte slice
RECURSIVE HexBytes(_)
HexBytes(bytes) ==
    IF bytes = <<>> THEN <<>> ELSE HexByte(Head(bytes)) \o HexBytes(Tail(bytes))

\* fmt.Sprintf("%s_%x", alias, sum[:8])
IndexName(alias, sum) ==
    Concat(<<alias, <<"_">>, HexBytes(SubSeq(sum, 1, NameSumBytes))>>)

NewIndexConfigValue(alias, config) ==
    [Name |-> IndexName(alias, Sum256[config]), Alias |-> alias, Config |-> config]

RECURSIVE IndexNames(_)
IndexNames(cfgs) ==
    IF cfgs = <<>> THEN <<>> ELSE <<Head(cfgs).Name>> \o IndexNames(Tail(cfgs))

(***************************************************************************)
(* time.Parse(time.RFC3339, s) and Time.IsZero                             *)
(*                                                                         *)
(* A Time is the instant it names: days since 0001-01-01 and seconds       *)
(* within the day, both in UTC.  The inputs of the model carry no          *)
(* fractional seconds.                                                     *)
(***************************************************************************)
ZeroTime == [days |-> 0, secs |-> 0]

IsZero(t) == t.days = 0 /\ t.secs = 0

IsDigit(ch) == \E i \in 1..10 : Digits[i] = ch

DigitVal(ch) == (CHOOSE i \in 1..10 : Digits[i] = ch) - 1

AllDigits(s) == \A i \in 1..Len(s) : IsDigit(s[i])

RECURSIVE Atoi(_)
Atoi(s) ==
    IF s = <<>> THEN 0 ELSE Atoi(SubSeq(s, 1, Len(s) - 1)) * 10 + DigitVal(s[Len(s)])

IsLeap(y) == y % 4 = 0 /\ (y % 100 # 0 \/ y % 400 = 0)

DaysIn(y, m) ==
    IF m = 2 THEN (IF IsLeap(y) THEN 29 ELSE 28)
    ELSE IF m \in {4, 6, 9, 11} THEN 30 ELSE 31

RECURSIVE DaysBeforeMonth(_, _)
DaysBeforeMonth(y, m) ==
    IF m = 1 THEN 0 ELSE DaysBeforeMonth(y, m - 1) + DaysIn(y, m - 1)

DaysBeforeYear(y) ==
    365 * (y - 1) + ((y - 1) \div 4) - ((y - 1) \div 100) + ((y - 1) \div 400)

\* The instant of a civil date and time at the given offset from UTC.
Date(y, m, d, hh, mi, ss, offset) ==
    LET day == DaysBeforeYear(y) + DaysBeforeMonth(y, m) + d - 1
        sec == hh * 3600 + mi * 60 + ss - offset
    IN  IF sec < 0 THEN [days |-> day - 1, secs |-> sec + 86400]
        ELSE IF sec >= 86400 THEN [days |-> day + 1, secs |-> sec - 86400]
        ELSE [days |-> day, secs |-> sec]

\* The shape YYYY-MM-DDTHH:MM:SS of the first 19 characters.
DateTimeShape(s) ==
    /\ Len(s) >= 19
    /\ AllDigits(SubSeq(s, 1, 4)) /\ s[5] = "-"
    /\ AllDigits(SubSeq(s, 6, 7)) /\ s[8] = "-"
    /\ AllDigits(SubSeq(s, 9, 10)) /\ s[11] = "T"
    /\ AllDigits(SubSeq(s, 12, 13)) /\ s[14] = ":"
    /\ AllDigits(SubSeq(s, 15, 16)) /\ s[17] = ":"
    /\ AllDigits(SubSeq(s, 18, 19))

\* The zone: Z, or a sign and hh:mm.
ZoneShape(z) ==
    \/ z = <<"Z">>
    \/ /\ Len(z) = 6
       /\ z[1] \in {"+", "-"}
       /\ AllDigits(SubSeq(z, 2, 3)) /\ z[4] = ":" /\ AllDigits(SubSeq(z, 5, 6))
       /\ Atoi(SubSeq(z, 2, 3)) < 24 /\ Atoi(SubSeq(z, 5, 6)) < 60

ZoneOffset(z) ==
    IF z = <<"Z">> THEN 0
    ELSE (IF z[1] = "-" THEN -1 ELSE 1)
         * (Atoi(SubSeq(z, 2, 3)) * 3600 + Atoi(SubSeq(z, 5, 6)) * 60)

FieldsInRange(s) ==
    LET y == Atoi(SubSeq(s, 1, 4))
        m == Atoi(SubSeq(s, 6, 7))
    IN  /\ m \in 1..12
        /\ Atoi(SubSeq(s, 9, 10)) \in 1..DaysIn(y, m)
        /\ Atoi(SubSeq(s, 12, 13)) < 24
        /\ Atoi(SubSeq(s, 15, 16)) < 60
        /\ Atoi(SubSeq(s, 18, 19)) < 60

ParseOK(s) ==
    /\ DateTimeShape(s)
    /\ ZoneShape(SubSeq(s, 20, Len(s)))
    /\ FieldsInRange(s)

ErrParse == "parsing time: cannot parse as RFC3339"

\* time.Parse(time.RFC3339, s): the zero Time with an error, or the instant
ParseRFC3339(s) ==
    IF ~ParseOK(s) THEN [time |-> ZeroTime, err |-> ErrParse]
    ELSE [time |-> Date(Atoi(SubSeq(s, 1, 4)), Atoi(SubSeq(s, 6, 7)),
                         Atoi(SubSeq(s, 9, 10)), Atoi(SubSeq(s, 12, 13)),
                         Atoi(SubSeq(s, 15, 16)), Atoi(SubSeq(s, 18, 19)),
                         ZoneOffset(SubSeq(s, 20, Len(s)))),
          err |-> Nil]

(***************************************************************************)
(* Inputs                                                                  *)
(***************************************************************************)
\* the longest list of deployed index names, and of IndexConfig values
MaxIndexes == 2

FirmPrefix == <<"f", "i", "r", "m", "_">>
PersonPrefix == <<"p", "e", "r", "s", "o", "n", "_">>

\* Deployed names: two firm indexes, a person index, and a name shorter than
\* its prefix that matches neither.
DeployedNames ==
    { FirmPrefix \o <<"a">>, FirmPrefix \o <<"b">>, PersonPrefix \o <<"a">>,
      <<"f", "i", "r", "m">> }

RECURSIVE SeqsUpTo(_, _)
SeqsUpTo(S, n) ==
    IF n = 0 THEN {<<>>}
    ELSE LET shorter == SeqsUpTo(S, n - 1)
         IN  shorter \cup {Append(q, x) : q \in shorter, x \in S}

\* The values of -from-date: absent, not a timestamp, a month out of range,
\* a timestamp, the earliest timestamp, and the earliest instant written
\* with a zone offset.
FromDates ==
    { <<>>,
      <<"s", "o", "o", "n">>,
      <<"2", "0", "2", "0", "-", "1", "3", "-", "0", "1", "T",
        "0", "0", ":", "0", "0", ":", "0", "0", "Z">>,
      <<"2", "0", "2", "0", "-", "0", "2", "-", "2", "9", "T",
        "0", "3", ":", "0", "4", ":", "0", "5", "Z">>,
      <<"0", "0", "0", "1", "-", "0", "1", "-", "0", "1", "T",
        "0", "0", ":", "0", "0", ":", "0", "0", "Z">>,
      <<"0", "0", "0", "1", "-", "0", "1", "-", "0", "1", "T",
        "0", "1", ":", "0", "0", ":", "0", "0", "+", "0", "1", ":", "0", "0">> }

\* -from, -to and -batch-size as given on the command line: <<n>>, or <<>>
\* when the flag is not given
RangeArgs ==
    { [from |-> <<>>, to |-> <<>>, batchSize |-> <<>>],
      [from |-> <<5>>, to |-> <<7>>, batchSize |-> <<>>],
      [from |-> <<>>, to |-> <<7>>, batchSize |-> <<50>>],
      [from |-> <<5>>, to |-> <<>>, batchSize |-> <<50>>] }

Args ==
    { [all |-> a, firm |-> f, person |-> p, range |-> r, fromDate |-> d] :
        a \in BOOLEAN, f \in BOOLEAN, p \in BOOLEAN, r \in RangeArgs, d \in FromDates }

\* Every environment: each variable unset or set; two passwords, one of them
\* with characters the connection URI reserves.
AllEnvs ==
    [ PASS : {<<>>, <<"x">>, <<"p", "/", "@", " ">>},
      PASS_SECRET : {<<>>, <<"k">>},
      USER : {<<>>, <<"u">>},
      HOST : {<<>>, <<"h">>},
      PORT : {<<>>, <<"5">>},
      DATABASE : {<<>>, <<"d">>} ]

ErrSecret == "secret not found"

\* What the secret store answers: a secret, an empty secret, or an error.
SecretAnswers ==
    { [val |-> <<"s", "+">>, err |-> Nil],
      [val |-> <<>>, err |-> Nil],
      [val |-> <<>>, err |-> ErrSecret] }

GoodEnv ==
    [PASS |-> <<"x">>, PASS_SECRET |-> <<>>, USER |-> <<"u">>, HOST |-> <<"h">>,
     PORT |-> <<"5">>, DATABASE |-> <<"d">>]

\* The environments Run is started in: complete, password from the secret
\* store, a required variable missing, and a failing secret store.
RunEnvs ==
    { [env |-> GoodEnv, secret |-> [val |-> <<>>, err |-> ErrSecret]],
      [env |-> [GoodEnv EXCEPT !.PASS = <<>>, !.PASS_SECRET = <<"k">>],
       secret |-> [val |-> <<"s", "+">>, err |-> Nil]],
      [env |-> [GoodEnv EXCEPT !.HOST = <<>>],
       secret |-> [val |-> <<>>, err |-> Nil]],
      [env |-> [GoodEnv EXCEPT !.PASS_SECRET = <<"k">>],
       secret |-> [val |-> <<>>, err |-> ErrSecret]] }

\* What an indexer method returns: a Result (<<r>>), or nil (<<>>) and an error
ErrIndexer == "indexer: bulk request failed"

Results ==
    { [Successful |-> 3, Failed |-> 0, Errors |-> <<>>],
      [Successful |-> 7, Failed |-> 2, Errors |-> <<"e1", "e2">>] }

Outcomes ==
    {[result |-> <<r>>, err |-> Nil] : r \in Results}
        \cup {[result |-> <<>>, err |-> ErrIndexer]}

\* Digests: all bytes zero but two neighbours, placed at the start of the
\* digest, across the end of the part the name uses, or after it.
ByteVals == {0, 1, 17, 255}
VaryAt == {1, NameSumBytes, NameSumBytes + 1}

DigestAt(k, b1, b2) ==
    [i \in 1..Size |-> IF i = k THEN b1 ELSE IF i = k + 1 THEN b2 ELSE 0]

Digests == {DigestAt(k, b1, b2) : k \in VaryAt, b1 \in ByteVals, b2 \in ByteVals}

Configs == {"config1", "config2"}

Aliases == {<<"f", "i", "r", "m">>, <<"p", "e", "r", "s", "o", "n">>}

(***************************************************************************)
(* Run: flags, selection of the indexers, choice of the strategy           *)
(***************************************************************************)
\* the flag defaults
DefaultFrom == 0
DefaultTo == 100
DefaultBatchSize == 10000

OrDefault(given, default) == IF given = <<>> THEN default ELSE given[1]

\* flagset.Parse(args)
ParsedFlags(a) ==
    [all |-> a.all, firmOnly |-> a.firm, personOnly |-> a.person,
     from |-> OrDefault(a.range.from, DefaultFrom),
     to |-> OrDefault(a.range.to, DefaultTo),
     batchSize |-> OrDefault(a.range.batchSize, DefaultBatchSize),
     fromDate |-> a.fromDate]

\* FirstWithPrefix without the break: the last name with the prefix wins.
RECURSIVE LastWithPrefix(_, _)
LastWithPrefix(names, prefix) ==
    IF names = <<>> THEN None
    ELSE IF HasPrefix(names[Len(names)], prefix) THEN names[Len(names)]
    ELSE LastWithPrefix(SubSeq(names, 1, Len(names) - 1), prefix)

\* The loop over c.currentIndexNames that stops at the first name with the
\* prefix: that name, or None when the loop ends without a match.
RECURSIVE FirstWithPrefix(_, _)
FirstWithPrefix(names, prefix) ==
    IF names = <<>> THEN None
    ELSE IF HasPrefix(Head(names), prefix) THEN Head(names)
    ELSE FirstWithPrefix(Tail(names), prefix)

Prefix(type) == IF type = "firm" THEN FirmPrefix ELSE PersonPrefix

\* *firmOnly || noneSet, and *personOnly || noneSet
Requested(f, type) ==
    LET noneSet == ~f.firmOnly /\ ~f.personOnly
    IN  IF type = "firm" THEN f.firmOnly \/ noneSet ELSE f.personOnly \/ noneSet

\* The map Run builds: entity type to the index name its indexer is created with.
SelectIndexers(f, names) ==
    [type \in {t \in {"firm", "person"} :
                  Requested(f, t) /\ FirstWithPrefix(names, Prefix(t)) # None}
        |-> FirstWithPrefix(names, Prefix(type))]

\* Strategy with an id range given on the command line taking precedence
\* over -all.
StrategyRangeFirst(t, f) ==
    IF ~IsZero(t) THEN [method |-> "FromDate", args |-> <<t, f.batchSize>>]
    ELSE IF f.all /\ f.from = DefaultFrom /\ f.to = DefaultTo
         THEN [method |-> "All", args |-> <<f.batchSize>>]
    ELSE [method |-> "ByID", args |-> <<f.from, f.to, f.batchSize>>]

\* The method the loop body calls, with its arguments after ctx.
Strategy(t, f) ==
    IF ~IsZero(t) THEN [method |-> "FromDate", args |-> <<t, f.batchSize>>]
    ELSE IF f.all THEN [method |-> "All", args |-> <<f.batchSize>>]
    ELSE [method |-> "ByID", args |-> <<f.from, f.to, f.batchSize>>]

\* The line logged before the call.
StartLine(name, st) ==
    [fmt |-> CASE st.method = "FromDate" -> "indexing %s by date from=%v batchSize=%d"
               [] st.method = "All" -> "indexing %s all records batchSize=%d"
               [] st.method = "ByID" -> "indexing %s by id from=%d to=%d batchSize=%d",
     args |-> <<name>> \o st.args]

RECURSIVE ErrorLines(_)
ErrorLines(errors) ==
    IF errors = <<>> THEN <<>>
    ELSE <<[fmt |-> "%v", args |-> <<Head(errors)>>]>> \o ErrorLines(Tail(errors))

\* The lines logged after a call that returned a Result.
ResultLines(result) ==
    <<[fmt |-> "indexing done successful=%d failed=%d",
       args |-> <<result.Successful, result.Failed>>]>> \o ErrorLines(result.Errors)

\* The lines one pass of the loop body logs.
LoopLines(name, st, out) ==
    <<StartLine(name, st)>> \o (IF out.err # Nil THEN <<>> ELSE ResultLines(out.result[1]))

\* Deferred without the deferred Close.
DeferredNothing(state) == state

\* defer conn.Close(ctx), run when Run returns
Deferred(state) == IF state = "open" THEN "closed" ELSE state

ErrConnect == "failed to connect"
ErrPing == "ping failed"
ErrFromDate == "-from-date: parsing time: cannot parse as RFC3339"

\* DateRejected without the test for the empty string.
DateRejectedEvenEmpty(fromDate, err) == err # Nil

\* Aborts when the loop goes on after an error.
AbortsNever(err) == FALSE

\* LoopDone when Run returns from inside the loop body.
LoopDoneEarly(left) == TRUE

\* if *fromDate != "" && err != nil
DateRejected(fromDate, err) == fromDate # <<>> /\ err # Nil

\* if err != nil { return err } after the indexer's call
Aborts(err) == err # Nil

\* The range loop has visited every key of the map, and line 158 is reached.
LoopDone(left) == left = {}

Return(err) ==
    /\ pc' = "done"
    /\ retErr' = err
    /\ connState' = Deferred(connState)

(***************************************************************************)
(* Actions                                                                 *)
(***************************************************************************)
\* main: one more IndexConfig
NewIndexConfig ==
    /\ pc = "main"
    /\ Len(indexes) < MaxIndexes
    /\ \E alias \in Aliases, config \in Configs :
          indexes' = Append(indexes, NewIndexConfigValue(alias, config))
    /\ UNCHANGED <<env, secret, connResult, Sum256, currentIndexNames, pc, args, flags,
                   connState, connects, pinged, indexers, fromTime, todo, calls,
                   logs, retErr>>

\* main: the command is built from the IndexConfig values
NewIndex ==
    /\ pc = "main"
    /\ currentIndexNames' = IndexNames(indexes)
    /\ pc' = "run"
    /\ UNCHANGED <<env, secret, connResult, Sum256, indexes, args, flags, connState,
                   connects, pinged, indexers, fromTime, todo, calls, logs, retErr>>

\* Run, lines 77-89: the flags
ParseFlags ==
    /\ pc = "run"
    /\ \E a \in Args : args' = a /\ flags' = ParsedFlags(a)
    /\ pc' = "connstr"
    /\ UNCHANGED <<env, secret, connResult, Sum256, indexes, currentIndexNames,
                   connState, connects, pinged, indexers, fromTime, todo, calls,
                   logs, retErr>>

\* Run, lines 93-96: the connection string
ConnString ==
    /\ pc = "connstr"
    /\ connResult' = dbConnectionString(env, secret)
    /\ IF connResult'.err # Nil
          THEN Return(connResult'.err)
          ELSE pc' = "connect" /\ UNCHANGED <<retErr, connState>>
    /\ UNCHANGED <<env, secret, Sum256, indexes, currentIndexNames, args, flags,
                   connects, pinged, indexers, fromTime, todo, calls, logs>>

\* Run, lines 98-102: pgx.Connect, and the deferred Close once it succeeded
Connect ==
    /\ pc = "connect"
    /\ connects' = connects + 1
    /\ \E ok \in BOOLEAN :
          IF ok THEN pc' = "ping" /\ connState' = "open" /\ UNCHANGED retErr
                ELSE Return(ErrConnect)
    /\ UNCHANGED <<env, secret, connResult, Sum256, indexes, currentIndexNames,
                   args, flags, pinged, indexers, fromTime, todo, calls, logs>>

\* Run, lines 104-106: conn.Ping
Ping ==
    /\ pc = "ping"
    /\ \E ok \in BOOLEAN :
          IF ok THEN pc' = "select" /\ pinged' = TRUE /\ UNCHANGED <<retErr, connState>>
                ELSE Return(ErrPing) /\ UNCHANGED pinged
    /\ UNCHANGED <<env, secret, connResult, Sum256, indexes, currentIndexNames,
                   args, flags, connects, indexers, fromTime, todo, calls, logs>>

\* Run, lines 108-126: one indexer per requested type with a deployed index
Select ==
    /\ pc = "select"
    /\ indexers' = SelectIndexers(flags, currentIndexNames)
    /\ pc' = "parse"
    /\ UNCHANGED <<env, secret, connResult, Sum256, indexes, currentIndexNames,
                   args, flags, connState, connects, pinged, fromTime, todo, calls, logs,
                   retErr>>

\* Run, lines 128-132: -from-date
ParseFromDate ==
    /\ pc = "parse"
    /\ LET parsed == ParseRFC3339(flags.fromDate)
       IN  /\ fromTime' = parsed.time
           /\ IF DateRejected(flags.fromDate, parsed.err)
                 THEN Return(ErrFromDate) /\ UNCHANGED todo
                 ELSE /\ pc' = "loop"
                      /\ todo' = DOMAIN indexers
                      /\ UNCHANGED <<retErr, connState>>
    /\ UNCHANGED <<env, secret, connResult, Sum256, indexes, currentIndexNames,
                   args, flags, connects, pinged, indexers, calls, logs>>

\* Run, lines 134-156: one pass of the loop over the map, in any order
IndexOne ==
    /\ pc = "loop"
    /\ \E name \in todo, out \in Outcomes :
          LET st == Strategy(fromTime, flags)
          IN  /\ calls' = Append(calls, [type |-> name, index |-> indexers[name],
                                         method |-> st.method, args |-> st.args,
                                         conn |-> connState, pinged |-> pinged,
                                         result |-> out.result, err |-> out.err])
              /\ logs' = logs \o LoopLines(name, st, out)
              /\ IF Aborts(out.err)
                    THEN Return(out.err) /\ UNCHANGED todo
                    ELSE /\ todo' = todo \ {name}
                         /\ UNCHANGED <<pc, retErr, connState>>
    /\ UNCHANGED <<env, secret, connResult, Sum256, indexes, currentIndexNames,
                   args, flags, connects, pinged, indexers, fromTime>>

\* Run, line 158: the loop is over
Finish ==
    /\ pc = "loop"
    /\ LoopDone(todo)
    /\ Return(Nil)
    /\ UNCHANGED <<env, secret, connResult, Sum256, indexes, currentIndexNames,
                   args, flags, connects, pinged, indexers, fromTime, todo, calls, logs>>

(***************************************************************************)
(* Specifications                                                          *)
(***************************************************************************)
NotStarted ==
    /\ connResult = None
    /\ args = None
    /\ flags = None
    /\ connState = "none"
    /\ connects = 0
    /\ pinged = FALSE
    /\ indexers = None
    /\ fromTime = None
    /\ todo = {}
    /\ calls = <<>>
    /\ logs = <<>>
    /\ retErr = None

\* Run on a command built over some deployed names, in some environment.
Init ==
    /\ \E e \in RunEnvs : env = e.env /\ secret = e.secret
    /\ Sum256 = <<>>
    /\ indexes = <<>>
    /\ currentIndexNames \in SeqsUpTo(DeployedNames, MaxIndexes)
    /\ pc = "run"
    /\ NotStarted

Next ==
    \/ ParseFlags
    \/ ConnString
    \/ Connect
    \/ Ping
    \/ Select
    \/ ParseFromDate
    \/ IndexOne
    \/ Finish

Spec == Init /\ [][Next]_vars

\* dbConnectionString in every environment, with the default flags.
InitConn ==
    /\ env \in AllEnvs
    /\ secret \in SecretAnswers
    /\ Sum256 = <<>>
    /\ indexes = <<>>
    /\ currentIndexNames = <<>>
    /\ pc = "run"
    /\ NotStarted

NextConn ==
    \/ ParseFlags
    \/ ConnString

SpecConn == InitConn /\ [][NextConn]_vars

\* The construction of the command: NewIndexConfig for each index, then NewIndex.
InitName ==
    /\ env = GoodEnv
    /\ secret = [val |-> <<>>, err |-> Nil]
    /\ Sum256 \in [Configs -> Digests]
    /\ indexes = <<>>
    /\ currentIndexNames = <<>>
    /\ pc = "main"
    /\ NotStarted

NextName ==
    \/ NewIndexConfig
    \/ NewIndex

SpecName == InitName /\ [][NextName]_vars

(***************************************************************************)
(* Properties                                                              *)
(***************************************************************************)
FlagsParsed == pc \notin {"main", "run"}
Resolved == pc \notin {"main", "run", "connstr"}
Selected == pinged /\ pc # "select"
Done == pc = "done"

Types == {"firm", "person"}

CallsOf(type) == {i \in 1..Len(calls) : calls[i].type = type}

\* C1: whenever -from-date is non-empty and parses as an RFC3339 timestamp,
\* every indexer call of the run is FromDate(timestamp, batchSize), never All
\* or ByID, whatever -all, -from and -to are.
C1_ParseableDateSelectsFromDate ==
    (FlagsParsed /\ args.fromDate # <<>> /\ ParseOK(args.fromDate)) =>
        \A i \in 1..Len(calls) :
            /\ calls[i].method = "FromDate"
            /\ calls[i].args = <<ParseRFC3339(args.fromDate).time, flags.batchSize>>

SummaryFmt == "indexing done successful=%d failed=%d"

\* C2: a call that returned an error is the last call of the run; Run has
\* returned that very error; the last line logged is the line announcing the
\* failed call, and there are exactly as many summary lines as earlier calls.
C2_FailFast ==
    \A i \in 1..Len(calls) :
        calls[i].err # Nil =>
            /\ i = Len(calls)
            /\ Done
            /\ retErr = calls[i].err
            /\ logs[Len(logs)].fmt \notin {SummaryFmt, "%v"}
            /\ logs[Len(logs)].args[1] = calls[i].type
            /\ Cardinality({k \in 1..Len(logs) : logs[k].fmt = SummaryFmt}) = i - 1

\* C2's case: two indexers were selected and the first call failed.
C2_Witness ==
    /\ Done
    /\ Len(calls) = 1
    /\ calls[1].err = ErrIndexer
    /\ Cardinality(DOMAIN indexers) = 2

\* C3: the secret store is consulted only when SEARCH_SERVICE_DB_PASS is
\* empty and SEARCH_SERVICE_DB_PASS_SECRET is set, so with a non-empty
\* SEARCH_SERVICE_DB_PASS the result is the same whatever the store answers.
C3_DirectPasswordFirst ==
    Resolved =>
        /\ connResult.lookups # <<>> => (env.PASS = <<>> /\ env.PASS_SECRET # <<>>)
        /\ env.PASS # <<>> =>
              \A answer \in SecretAnswers : dbConnectionString(env, answer) = connResult

\* C4: a non-empty -from-date that does not parse makes Run return an error
\* (the -from-date error once the connection is up) with no indexer call at
\* all; an empty -from-date never gives that error, and the calls made are
\* All or ByID.
C4_MalformedDateAborts ==
    /\ (FlagsParsed /\ args.fromDate # <<>> /\ ~ParseOK(args.fromDate)) =>
          /\ calls = <<>>
          /\ pc # "loop"
          /\ Done => (retErr # Nil /\ (pinged => retErr = ErrFromDate))
    /\ (FlagsParsed /\ args.fromDate = <<>>) =>
          /\ retErr # ErrFromDate
          /\ \A i \in 1..Len(calls) : calls[i].method \in {"All", "ByID"}
          /\ (Done /\ pinged /\ retErr # Nil) => (calls # <<>> /\ retErr = ErrIndexer)

\* C4's case: indexers were selected, the date was rejected, none was called.
C4_Witness ==
    /\ Done
    /\ retErr = ErrFromDate
    /\ Cardinality(DOMAIN indexers) = 2
    /\ calls = <<>>
    /\ args.all

\* C5: with an empty -from-date every call is All(batchSize) when -all is
\* set, whatever -from and -to are, and ByID(from, to, batchSize) with the
\* given bounds, or 0 and 100 when not given, when -all is not set.
C5_AllThenByID ==
    (FlagsParsed /\ args.fromDate = <<>>) =>
        \A i \in 1..Len(calls) :
            LET size == IF args.range.batchSize = <<>> THEN 10000
                        ELSE args.range.batchSize[1]
            IN  IF args.all
                THEN calls[i].method = "All" /\ calls[i].args = <<size>>
                ELSE /\ calls[i].method = "ByID"
                     /\ calls[i].args =
                           << IF args.range.from = <<>> THEN 0 ELSE args.range.from[1],
                              IF args.range.to = <<>> THEN 100 ELSE args.range.to[1],
                              size >>

\* C5's case: -all with -from and -to given, both indexers called with All.
C5_Witness ==
    /\ Done
    /\ args.fromDate = <<>>
    /\ args.all
    /\ args.range.from = <<5>>
    /\ Len(calls) = 2
    /\ calls[2].method = "All"

TypeName(type) ==
    IF type = "firm" THEN <<"f", "i", "r", "m">> ELSE <<"p", "e", "r", "s", "o", "n">>

\* name starts with the type's alias followed by an underscore
StartsWithAlias(name, type) ==
    LET alias == TypeName(type)
    IN  /\ Len(name) > Len(alias)
        /\ \A k \in 1..Len(alias) : name[k] = alias[k]
        /\ name[Len(alias) + 1] = "_"

WantedByArgs(type) ==
    \/ (IF type = "firm" THEN args.firm ELSE args.person)
    \/ (~args.firm /\ ~args.person)

\* C6: the map has an entry for a type exactly when the type is requested and
\* some deployed name starts with "type_"; the entry is the first such name
\* of the deployed sequence; selecting returns no error.
C6_FirstMatchPerRequestedType ==
    Selected =>
        /\ DOMAIN indexers \subseteq Types
        /\ \A type \in Types :
              /\ type \in DOMAIN indexers <=>
                    /\ WantedByArgs(type)
                    /\ \E i \in 1..Len(currentIndexNames) :
                          StartsWithAlias(currentIndexNames[i], type)
              /\ type \in DOMAIN indexers =>
                    \E i \in 1..Len(currentIndexNames) :
                        /\ indexers[type] = currentIndexNames[i]
                        /\ StartsWithAlias(currentIndexNames[i], type)
                        /\ \A j \in 1..(i - 1) :
                              ~StartsWithAlias(currentIndexNames[j], type)
        /\ pc = "parse" => retErr = None

\* C6's case: two firm indexes deployed, the first is taken; person is
\* requested by default and has no index.
C6_Witness ==
    /\ Selected
    /\ currentIndexNames = <<FirmPrefix \o <<"b">>, FirmPrefix \o <<"a">>>>
    /\ ~args.firm /\ ~args.person
    /\ DOMAIN indexers = {"firm"}
    /\ indexers["firm"] = FirmPrefix \o <<"b">>
    /\ Done /\ retErr = Nil

RequiredOrder ==
    << [value |-> env.USER, err |-> ErrUser], [value |-> env.HOST, err |-> ErrHost],
       [value |-> env.PORT, err |-> ErrPort], [value |-> env.DATABASE, err |-> ErrDatabase] >>

\* the password dbConnectionString ended up with
ResolvedPass == IF connResult.lookups # <<>> THEN secret.val ELSE env.PASS

LookupFailed == connResult.lookups # <<>> /\ secret.err # Nil

\* C7: dbConnectionString returns either a connection string and no error,
\* or an error and the empty string; the string only when password, user,
\* host, port and database are all non-empty; and with the password resolved
\* the error is that of the first missing variable in the order user, host,
\* port, database.
C7_AllOrNothing ==
    Resolved =>
        /\ (connResult.conn # <<>>) <=> (connResult.err = Nil)
        /\ connResult.conn # <<>> =>
              /\ ResolvedPass # <<>>
              /\ \A k \in 1..4 : RequiredOrder[k].value # <<>>
        /\ (~LookupFailed /\ ResolvedPass # <<>>) =>
              /\ \A k \in 1..4 :
                    (/\ RequiredOrder[k].value = <<>>
                     /\ \A j \in 1..(k - 1) : RequiredOrder[j].value # <<>>)
                        => connResult.err = RequiredOrder[k].err
              /\ (\A k \in 1..4 : RequiredOrder[k].value # <<>>) => connResult.conn # <<>>

\* C7's case: the password is there, user and port are missing, user is named.
C7_Witness ==
    /\ Resolved
    /\ env.PASS # <<>> /\ env.PASS_SECRET = <<>>
    /\ env.USER = <<>> /\ env.PORT = <<>> /\ env.HOST # <<>>
    /\ connResult.err = ErrUser

HexDigitVal(ch) == (CHOOSE i \in 1..16 : LowerHex[i] = ch) - 1

SamePrefix(sum1, sum2) == \A k \in 1..8 : sum1[k] = sum2[k]

SameStrategy ==
    \A i, j \in 1..Len(calls) :
        calls[i].method = calls[j].method /\ calls[i].args = calls[j].args

NoCallFailed == \A i \in 1..Len(calls) : calls[i].err = Nil

\* C9, as claimed: in every invocation all calls use one strategy with the
\* same parameters, each selected type is called at most once, and exactly
\* once when no call returned an error.
C9_OneStrategyOnceEach ==
    /\ SameStrategy
    /\ Selected =>
          /\ \A type \in DOMAIN indexers : Cardinality(CallsOf(type)) <= 1
          /\ (Done /\ NoCallFailed) =>
                \A type \in DOMAIN indexers : Cardinality(CallsOf(type)) = 1

\* C9, amended: ... exactly once when no call returned an error and the run
\* was not aborted by a malformed -from-date.
C9_OnceEachUnlessDateRejected ==
    /\ SameStrategy
    /\ \A i \in 1..Len(calls) : calls[i].type \in DOMAIN indexers
    /\ Selected =>
          /\ \A type \in DOMAIN indexers : Cardinality(CallsOf(type)) <= 1
          /\ (Done /\ NoCallFailed /\ retErr # ErrFromDate) =>
                \A type \in DOMAIN indexers : Cardinality(CallsOf(type)) = 1

\* C9's case: both types selected, both called once with the same ByID.
C9_Witness ==
    /\ Done
    /\ retErr = Nil
    /\ DOMAIN indexers = Types
    /\ Len(calls) = 2
    /\ calls[1].type # calls[2].type
    /\ calls[1].method = "ByID"

\* C10: at most one connection is opened; a connection that was opened is
\* closed when Run has returned; every indexer call was made on the open
\* connection after a successful ping, so none before and none after.
C10_OneConnectionClosedOnReturn ==
    /\ connects <= 1
    /\ connState # "none" => connects = 1
    /\ Done => connState # "open"
    /\ (Done /\ retErr \in {ErrPing, ErrFromDate, ErrIndexer, Nil}) => connState = "closed"
    /\ \A i \in 1..Len(calls) : calls[i].conn = "open" /\ calls[i].pinged
    /\ calls # <<>> => pinged

\* C10's case: an indexer failed and Run returned with the connection closed.
C10_Witness ==
    /\ Done
    /\ retErr = ErrIndexer
    /\ connState = "closed"

====
